---- MODULE Spec2Model ----
(***************************************************************************)
(* SFLib heap (src/src/heap.c): malloc-like calls on an OS_Heap managed    *)
(* heap held inside the first block of a flex heap, with the fatal error   *)
(* report of src/src/errors.c.                                             *)
(*                                                                         *)
(* The flex block is the arena: heap_anchor is its address, flex_size its  *)
(* actual size and heap_block_size the size heap.c believes it has.        *)
(* os_heap is the OS_Heap descriptor and block structure inside the arena  *)
(* (offsets from heap_anchor); mem holds the bytes of the claimed blocks.  *)
(* Every public call is one action; the collaborator calls it makes are    *)
(* logged, in order, in trace.                                             *)
(***************************************************************************)
EXTENDS Integers, Sequences, FiniteSets, TLC

\* ---------------------------------------------------------------- bounds

\* The request sizes the client uses.
MidSize == 100
BigSize == 500
\* The most allocations the client holds at once.
MaxLive == 2
\* The flex block size above which the provider has no memory left to give.
MaxFlex == 1600
\* The calls on heap.c the client makes in one run.
MaxCalls == 5
\* The calls of a client that makes a longer run, leaving the blocks unwritten.
MaxLongCalls == 7

Sizes == {0, MidSize, BigSize}

\* The strings the client keeps in its buffer: "", "Hi", and "H" with what an
\* earlier string left after its terminator.
Texts == {<<0, 0, 0, 0>>, <<72, 105, 0, 0>>, <<72, 0, 105, 0>>}

\* ------------------------------------------------------- program constants

HEAP_GRANULARITY == 1024
HEAP_BLOCK_OHEAD == 16
\* sizeof(int), the width of the size header heap.c puts before each block.
SizeofInt == 4
NULL == 0
TRUE_ == 1
FALSE_ == 0

\* The address flex gives the first block of its heap.
FlexBase == 32768
\* The address of the client's string buffer, in the program's own data below
\* the flex heap.
TextAddr == 32512
\* An os_error block, as the X-form OS_Heap calls return it.
HeapError == 1
\* OS_Heap: the descriptor at the start of the heap, the size word before
\* each block, and the unit block sizes are rounded up to.
HeapDescSize == 16
HeapBlockWord == 4
HeapAlign == 8
\* 0x80000000 as an int: shrink the heap as far as it goes.
ShrinkAll == -2147483647 - 1
\* The content of memory nobody has written yet.
Junk == -1
ByteRange == 256

\* ------------------------------------------------------------- arithmetic

Min(a, b) == IF a < b THEN a ELSE b

Max(a, b) == IF a > b THEN a ELSE b

RoundUp(n) == ((n + HeapAlign - 1) \div HeapAlign) * HeapAlign

RECURSIVE Pow(_, _)
Pow(b, k) == IF k = 0 THEN 1 ELSE b * Pow(b, k - 1)

\* Byte k of the int v as the ARM stores it (little-endian).
IntByte(v, k) == (v \div Pow(ByteRange, k)) % ByteRange

\* Memory is the data of the claimed blocks: for each, by the offset of its
\* data, the sequence of its bytes.

\* n bytes nobody has written yet.
Fresh(n) == [i \in 1..n |-> Junk]

\* The bytes s as the content of n bytes of memory.
Fit(s, n) ==
    IF Len(s) = n THEN s
    ELSE IF Len(s) > n THEN SubSeq(s, 1, n)
    ELSE s \o Fresh(n - Len(s))

\* The byte at offset a: memory outside the claimed blocks holds anything.
ReadByte(m, a) ==
    LET in == {d \in DOMAIN m : d <= a /\ a < d + Len(m[d])}
    IN  IF in = {} THEN Junk
        ELSE LET d == CHOOSE d \in in : TRUE IN m[d][a - d + 1]

\* The int stored in the four bytes at offset a.
ReadInt(m, a) ==
    IF \A k \in 0..(SizeofInt - 1) : ReadByte(m, a + k) # Junk
    THEN ReadByte(m, a) + ReadByte(m, a + 1) * ByteRange
           + ReadByte(m, a + 2) * Pow(ByteRange, 2)
           + ReadByte(m, a + 3) * Pow(ByteRange, 3)
    ELSE Junk

\* m with the bytes s stored from offset a on.
WriteBytes(m, a, s) ==
    [d \in DOMAIN m |->
        LET lo == Max(a, d)
            hi == Min(a + Len(s), d + Len(m[d]))
        IN  IF hi <= lo THEN m[d]
            ELSE SubSeq(m[d], 1, lo - d) \o SubSeq(s, lo - a + 1, hi - a)
                   \o SubSeq(m[d], hi - d + 1, Len(m[d]))]

\* m with the int v stored in the four bytes at offset a.
WriteInt(m, a, v) ==
    WriteBytes(m, a, [k \in 1..SizeofInt |-> IntByte(v, k - 1)])

\* ---------------------------------------------------------------- OS_Heap
\* A heap is [base, end, free, used]: end is the heap's extent, base the
\* offset above which nothing has been claimed, free and used the sets of
\* blocks [off, sz] below base (off is the block's size word, sz includes it).

BlockAt(h, data) == CHOOSE b \in h.used : b.off + HeapBlockWord = data

IsBlock(h, data) == \E b \in h.used : b.off + HeapBlockWord = data

\* OS_Heap 0: a descriptor over size bytes, with nothing claimed.
OSHeapInitialise(size) ==
    [base |-> HeapDescSize, end |-> size, free |-> {}, used |-> {}]

\* The free block of S at the lowest address.
LowestFree(S) == CHOOSE f \in S : \A g \in S : f.off <= g.off

\* The bytes of m outside the blocks of the heap h are dropped, and the data
\* of its blocks that m does not hold yet is unwritten memory.
Remap(m, h) ==
    [d \in {b.off + HeapBlockWord : b \in h.used} |->
        LET n == BlockAt(h, d).sz - HeapBlockWord
        IN  IF d \in DOMAIN m THEN Fit(m[d], n) ELSE Fresh(n)]

\* OS_Heap 2: claim size bytes. First fit from the free list, taking the top
\* of the free block; failing that, from the space between base and end.
OSHeapAlloc(h, size) ==
    LET need == RoundUp(size + HeapBlockWord)
        fits == {f \in h.free : f.sz >= need}
    IN  IF fits # {}
        THEN LET f == LowestFree(fits)
                 blk == [off |-> f.off + f.sz - need, sz |-> need]
                 rest == IF f.sz = need THEN {}
                         ELSE {[off |-> f.off, sz |-> f.sz - need]}
             IN  [error |-> NULL, block |-> blk.off + HeapBlockWord,
                  heap |-> [h EXCEPT !.free = (@ \ {f}) \cup rest,
                                     !.used = @ \cup {blk}]]
        ELSE IF h.base + need <= h.end
        THEN [error |-> NULL, block |-> h.base + HeapBlockWord,
              heap |-> [h EXCEPT !.base = @ + need,
                                 !.used = @ \cup {[off |-> h.base, sz |-> need]}]]
        ELSE [error |-> HeapError, block |-> NULL, heap |-> h]

\* The heap h with the region [off, off + sz) given back: joined to the free
\* blocks beside it, and to the unclaimed space when it ends at base.
Release(h, off, sz) ==
    LET lo == {f \in h.free : f.off + f.sz = off}
        hi == {f \in h.free : f.off = off + sz}
        start == IF lo # {} THEN (CHOOSE f \in lo : TRUE).off ELSE off
        stop == IF hi # {} THEN off + sz + (CHOOSE f \in hi : TRUE).sz
                ELSE off + sz
        rest == h.free \ (lo \cup hi)
    IN  IF stop = h.base
        THEN [h EXCEPT !.base = start, !.free = rest]
        ELSE [h EXCEPT !.free = rest \cup {[off |-> start, sz |-> stop - start]}]

\* OS_Heap 3: free the block whose data is at offset data.
OSHeapFree(h, data) ==
    LET b == BlockAt(h, data)
    IN  Release([h EXCEPT !.used = @ \ {b}], b.off, b.sz)

\* OS_Heap 5: change the heap's extent by change bytes; a shrink stops at
\* base. The result carries the change made.
OSHeapResize(h, change) ==
    LET newend == IF change < h.base - h.end THEN h.base ELSE h.end + change
    IN  [heap |-> [h EXCEPT !.end = newend], change |-> newend - h.end]

\* OS_Heap 4: change the size of the block at data by change bytes, in place
\* when it shrinks or when the space above it is free, else by claiming a new
\* block, copying the data and freeing the old one. The result carries the
\* heap, the memory and the (possibly new) offset of the data. An address
\* outside the claimed part of the heap is turned down; one inside it that is
\* no block is, when OS_Heap does not catch it (its caller's reject), taken
\* for a block that has room for the change where it is.
OSHeapRealloc(h, m, data, change) ==
    IF data < HeapDescSize \/ data >= h.base
    THEN [error |-> HeapError, block |-> NULL, heap |-> h, mem |-> m]
    ELSE IF ~IsBlock(h, data)
    THEN [error |-> NULL, block |-> data, heap |-> h, mem |-> m]
    ELSE
    LET b == BlockAt(h, data)
        newsz == RoundUp(b.sz + change)
        nb == [off |-> b.off, sz |-> newsz]
        grown == [h EXCEPT !.used = (@ \ {b}) \cup {nb}]
        extra == newsz - b.sz
        above == {f \in h.free : f.off = b.off + b.sz /\ f.sz >= extra}
    IN  IF newsz = b.sz
        THEN [error |-> NULL, block |-> data, heap |-> h, mem |-> m]
        ELSE IF newsz < b.sz
        THEN LET h2 == Release(grown, b.off + newsz, b.sz - newsz)
             IN  [error |-> NULL, block |-> data, heap |-> h2,
                  mem |-> Remap(m, h2)]
        ELSE IF above # {}
        THEN LET f == CHOOSE f \in above : TRUE
                 rest == IF f.sz = extra THEN {}
                         ELSE {[off |-> f.off + extra, sz |-> f.sz - extra]}
                 h2 == [grown EXCEPT !.free = (@ \ {f}) \cup rest]
             IN  [error |-> NULL, block |-> data, heap |-> h2,
                  mem |-> Remap(m, h2)]
        ELSE IF b.off + b.sz = h.base /\ h.base + extra <= h.end
        THEN LET h2 == [grown EXCEPT !.base = @ + extra]
             IN  [error |-> NULL, block |-> data, heap |-> h2,
                  mem |-> Remap(m, h2)]
        ELSE LET a == OSHeapAlloc(h, newsz - HeapBlockWord)
                 copied == [Remap(m, a.heap) EXCEPT
                              ![a.block] = Fit(m[data], newsz - HeapBlockWord)]
                 h2 == OSHeapFree(a.heap, data)
             IN  IF a.error # NULL
                 THEN [error |-> HeapError, block |-> NULL, heap |-> h, mem |-> m]
                 ELSE [error |-> NULL, block |-> a.block, heap |-> h2,
                       mem |-> Remap(copied, h2)]

\* ------------------------------------------------------------------- flex
\* The allocator's state as the calls below pass it along:
\* [anchor, block_size, flex_size, heap, mem, sink, exited, text, slide,
\*  handed, steps].

\* st after a statement that has set the size of the flex block or the extent
\* of the heap inside it: the two sizes are noted as they now stand.
Stepped(st) ==
    [st EXCEPT !.steps = Append(@, [flex |-> st.flex_size, end |-> st.heap.end])]

\* flex_alloc: the block of size bytes, at the start of the flex heap, when
\* flex has the memory (got); the anchor is left alone when it has not.
flex_alloc(st, size, got) ==
    IF got
    THEN [ok |-> TRUE,
          st |-> Stepped([st EXCEPT !.anchor = FlexBase, !.flex_size = size])]
    ELSE [ok |-> FALSE, st |-> st]

\* flex_extend: set the block's size to newsize, when flex has the memory
\* (grant). The first block of a flex heap stays where it is (slide is 0); a
\* provider that moves the block updates the anchor, and the block's bytes go
\* with it.
flex_extend(st, newsize, grant) ==
    IF grant /\ newsize <= MaxFlex
    THEN [ok |-> TRUE, st |-> Stepped([st EXCEPT !.flex_size = newsize,
                                                !.anchor = @ + st.slide,
                                                !.slide = 0])]
    ELSE [ok |-> FALSE, st |-> st]

\* ---------------------------------------------------------------- errors.c

\* error_report_program reporting and coming back.
error_report_program_returns(st, error) ==
    IF error = NULL THEN st ELSE [st EXCEPT !.sink = @ + 1]

\* error_report_program reporting and exiting whatever it is given.
error_report_program_always(st, error) ==
    [st EXCEPT !.sink = @ + 1, !.exited = TRUE]

\* error_report_program: report and exit, unless there is no error block.
error_report_program(st, error) ==
    IF error = NULL THEN st
    ELSE [st EXCEPT !.sink = @ + 1, !.exited = TRUE]

\* ------------------------------------------------------------------ heap.c

Ev(call, ok) == [call |-> call, ok |-> ok]

\* A block address as a call hands it to OS_Heap: the address, the value
\* heap_anchor had when the call worked it out, and the value it has now.
Handed(ptr, derived, used) == [ptr |-> ptr, derived |-> derived, used |-> used]

\* The X-form OS_Heap calls as heap.c sees them; reject stands for a heap
\* that turns the call down whatever room it has.
xosheap_alloc(h, size, reject) ==
    IF reject THEN [error |-> HeapError, block |-> NULL, heap |-> h]
    ELSE OSHeapAlloc(h, size)

xosheap_realloc(h, m, data, change, reject) ==
    IF reject THEN [error |-> HeapError, block |-> NULL, heap |-> h, mem |-> m]
    ELSE OSHeapRealloc(h, m, data, change)

\* heap_alloc storing the size with the header in it.
AllocHeaderWhole(size) == size

\* The value heap_alloc stores in the header, from the size with the header.
AllocHeader(size) == size - SizeofInt

\* heap_extend storing the size with the header in it.
ExtendHeaderWhole(new_size) == new_size

\* The value heap_extend stores in the header.
ExtendHeader(new_size) == new_size - SizeofInt

\* The pointer handed to the client for the OS_Heap block at block.
UserPointer(block) == block + SizeofInt

\* The OS_Heap block behind a client pointer.
BlockPointer(ptr) == ptr - SizeofInt

\* The arena growing by the claim alone, without OS_Heap's overhead.
GrowByBare(size) == size

\* The arena growing by a whole HEAP_GRANULARITY at the least.
GrowByGranule(size) == Max(size + HEAP_BLOCK_OHEAD, HEAP_GRANULARITY)

\* The bytes the arena grows by when a claim of size bytes fails.
GrowBy(size) == size + HEAP_BLOCK_OHEAD

\* heap_block_size counting the claim alone, without OS_Heap's overhead.
GrownShort(block_size, size) == block_size + size

\* heap_block_size after the arena has grown for a claim of size bytes.
Grown(block_size, size) == block_size + (size + HEAP_BLOCK_OHEAD)

\* heap_free leaving heap_block_size as it was.
ShrunkNot(block_size, shrink) == block_size

\* heap_block_size after OS_Heap has shrunk by shrink (a negative change).
Shrunk(block_size, shrink) == block_size + shrink

\* The test of the error taking every claim to have failed.
FailedAlways(error) == TRUE

\* if (error != NULL): the claim failed.
Failed(error) == error # NULL

\* heap_initialise. got: flex has the first block to give; initerr: what
\* OS_Heap makes of a heap at address zero when it has not.
heap_initialise(st, got, initerr) ==
    LET f == flex_alloc(st, st.block_size, got)
        error == IF f.st.anchor # NULL THEN NULL
                 ELSE IF initerr THEN HeapError ELSE NULL
        st1 == IF error = NULL
               THEN Stepped([f.st EXCEPT !.heap = OSHeapInitialise(st.block_size)])
               ELSE f.st
        st2 == error_report_program(st1, error)
    IN  [st |-> st2, ret |-> IF st2.exited THEN NULL ELSE TRUE_,
         trace |-> <<Ev("flex_alloc", f.ok), Ev("xosheap_initialise", error = NULL),
                     Ev("error_report_program", ~st2.exited)>>]

\* The end of heap_alloc without its test for a block.
AllocFinishUnchecked(st, block, size, t) ==
    [st |-> [st EXCEPT !.mem = WriteInt(Remap(st.mem, st.heap), block,
                                        AllocHeader(size))],
     ret |-> st.anchor + UserPointer(block), trace |-> t]

\* The end of heap_alloc: the header and the client's pointer.
AllocFinish(st, block, size, t) ==
    IF block # NULL
    THEN [st |-> [st EXCEPT !.mem = WriteInt(Remap(st.mem, st.heap), block,
                                             AllocHeader(size))],
          ret |-> st.anchor + UserPointer(block), trace |-> t]
    ELSE [st |-> st, ret |-> NULL, trace |-> t]

heap_alloc(st, s, grant, rej1, rej2) ==
    LET size == s + SizeofInt
        a1 == xosheap_alloc(st.heap, size, rej1)
        t1 == <<Ev("xosheap_alloc", a1.error = NULL)>>
        fx == flex_extend(st, st.block_size + GrowBy(size), grant)
        r == OSHeapResize(st.heap, GrowBy(size))
        st2 == [Stepped([fx.st EXCEPT !.heap = r.heap])
                    EXCEPT !.block_size = Grown(@, size)]
        a2 == xosheap_alloc(st2.heap, size, rej2)
        t2 == t1 \o <<Ev("flex_extend", TRUE), Ev("osheap_resize", TRUE),
                      Ev("heap_block_size", TRUE),
                      Ev("xosheap_alloc", a2.error = NULL)>>
        st3 == error_report_program(st2, a2.error)
        t3 == t2 \o <<Ev("error_report_program", ~st3.exited)>>
    IN  IF ~Failed(a1.error)
        THEN AllocFinish([st EXCEPT !.heap = a1.heap], a1.block, size, t1)
        ELSE IF ~fx.ok
        THEN AllocFinish(st, NULL, size, t1 \o <<Ev("flex_extend", FALSE)>>)
        ELSE IF ~Failed(a2.error)
        THEN AllocFinish([st2 EXCEPT !.heap = a2.heap], a2.block, size, t2)
        ELSE IF st3.exited
        THEN [st |-> st3, ret |-> NULL, trace |-> t3]
        ELSE AllocFinish(st3, a2.block, size, t3)

\* heap_free. grant: flex carries out the shrink.
heap_free(st, ptr, grant) ==
    LET p == BlockPointer(ptr) - st.anchor
        h1 == OSHeapFree(st.heap, p)
        r == OSHeapResize(h1, ShrinkAll)
        shrink == r.change
        st1 == Stepped([st EXCEPT !.heap = r.heap, !.mem = Remap(st.mem, r.heap),
                          !.handed = Handed(BlockPointer(ptr), st.anchor, st.anchor)])
        st2 == [st1 EXCEPT !.block_size = Shrunk(@, shrink)]
        fx == flex_extend(st2, st2.block_size, grant)
        t1 == <<Ev("osheap_free", TRUE), Ev("osheap_resize_no_fail", TRUE)>>
    IN  IF shrink < 0
        THEN [st |-> fx.st, ret |-> NULL,
              trace |-> t1 \o <<Ev("heap_block_size", TRUE), Ev("flex_extend", fx.ok)>>]
        ELSE [st |-> st1, ret |-> NULL, trace |-> t1]

\* The end of heap_extend without its test for a block.
ExtendFinishUnchecked(st, block, new_size, t) ==
    [st |-> [st EXCEPT !.mem = WriteInt(st.mem, block, ExtendHeader(new_size))],
     ret |-> st.anchor + UserPointer(block), trace |-> t]

\* The end of heap_extend with the header stored after the pointer has been
\* moved past it.
ExtendFinishLate(st, block, new_size, t) ==
    IF block # NULL
    THEN [st |-> [st EXCEPT !.mem = WriteInt(st.mem, UserPointer(block),
                                             ExtendHeader(new_size))],
          ret |-> st.anchor + UserPointer(block), trace |-> t]
    ELSE [st |-> st, ret |-> NULL, trace |-> t]

\* The end of heap_extend: the header and the client's pointer.
ExtendFinish(st, block, new_size, t) ==
    IF block # NULL
    THEN [st |-> [st EXCEPT !.mem = WriteInt(st.mem, block, ExtendHeader(new_size))],
          ret |-> st.anchor + UserPointer(block), trace |-> t]
    ELSE [st |-> st, ret |-> NULL, trace |-> t]

\* The change heap_extend asks OS_Heap for: the new size with its header,
\* less the size the header holds.
ExtendChange(new_size, stored) == new_size - stored

\* heap_extend. ptr is the address heap.c works out before the first claim
\* and hands to OS_Heap in both; heap_anchor is read anew for each.
heap_extend(st0, ptr0, s, grant, rej1, rej2) ==
    LET new_size == s + SizeofInt
        ptr == BlockPointer(ptr0)
        st == [st0 EXCEPT !.handed = Handed(ptr, st0.anchor, st0.anchor)]
        change == ExtendChange(new_size, ReadInt(st.mem, ptr - st.anchor))
        r1 == xosheap_realloc(st.heap, st.mem, ptr - st.anchor, change, rej1)
        t1 == <<Ev("xosheap_realloc", r1.error = NULL)>>
        fx == flex_extend(st, st.block_size + GrowBy(new_size), grant)
        r == OSHeapResize(st.heap, GrowBy(new_size))
        st2 == [Stepped([fx.st EXCEPT !.heap = r.heap])
                    EXCEPT !.block_size = Grown(@, new_size),
                           !.handed = Handed(ptr, st.anchor, fx.st.anchor)]
        r2 == xosheap_realloc(st2.heap, st2.mem, ptr - st2.anchor, change, rej2)
        t2 == t1 \o <<Ev("flex_extend", TRUE), Ev("osheap_resize", TRUE),
                      Ev("heap_block_size", TRUE),
                      Ev("xosheap_realloc", r2.error = NULL)>>
        st3 == error_report_program(st2, r2.error)
        t3 == t2 \o <<Ev("error_report_program", ~st3.exited)>>
    IN  IF ~Failed(r1.error)
        THEN ExtendFinish([st EXCEPT !.heap = r1.heap, !.mem = r1.mem],
                          r1.block, new_size, t1)
        ELSE IF ~fx.ok
        THEN ExtendFinish(st, NULL, new_size, t1 \o <<Ev("flex_extend", FALSE)>>)
        ELSE IF ~Failed(r2.error)
        THEN ExtendFinish([st2 EXCEPT !.heap = r2.heap, !.mem = r2.mem],
                          r2.block, new_size, t2)
        ELSE IF st3.exited
        THEN [st |-> st3, ret |-> NULL, trace |-> t3]
        ELSE ExtendFinish(st3, r2.block, new_size, t3)

\* strlen: the bytes before the first zero byte.
strlen(string) ==
    (CHOOSE i \in 1..Len(string) :
        string[i] = 0 /\ \A j \in 1..(i - 1) : string[j] # 0) - 1

\* The n bytes strncpy stores: the string up to its terminator, then zeros.
strncpy(string, n) ==
    [i \in 1..n |-> IF i <= strlen(string) THEN string[i] ELSE 0]

\* heap_strdup claiming the string's bytes without its terminator.
StrdupSizeBare(len) == len

\* size = strlen(string) + 1.
StrdupSize(len) == len + 1

\* heap_strdup of the string in the client's buffer. The bytes go to the
\* address heap_alloc returned, in the arena or in the client's buffer,
\* whichever holds that address.
heap_strdup(st, grant, rej1, rej2) ==
    LET size == StrdupSize(strlen(st.text))
        a == heap_alloc(st, size, grant, rej1, rej2)
        bytes == strncpy(st.text, size)
        buffer == WriteBytes([d \in {TextAddr} |-> a.st.text], a.ret, bytes)
    IN  IF a.ret # NULL
        THEN [st |-> [a.st EXCEPT
                        !.mem = WriteBytes(@, a.ret - a.st.anchor, bytes),
                        !.text = buffer[TextAddr]],
              ret |-> a.ret, trace |-> a.trace, size |-> size]
        ELSE [st |-> a.st, ret |-> NULL, trace |-> a.trace, size |-> size]

\* ------------------------------------------------------------------ state

VARIABLES
    heap_anchor,        \* heap.c: the flex anchor, the arena's address
    heap_block_size,    \* heap.c: the arena's size as heap.c tracks it
    flex_size,          \* flex: the size the block has
    os_heap,            \* OS_Heap: the heap inside the arena
    mem,                \* the bytes of the claimed blocks, by offset
    sink_calls,         \* errors.c: the fatal reports made
    exited,             \* errors.c: exit(1) has been called
    initialised,        \* heap_initialise has returned
    live,               \* the client's pointers
    req,                \* for each, the size the client last asked for
    text,               \* the client's string buffer, at TextAddr
    slide,              \* the provider: how far it moves the arena when it
                        \* next resizes it (flex, for its first block: 0)
    handed,             \* the block address a call last handed OS_Heap
    steps,              \* the sizes of the flex block and of the heap in it
                        \* after each statement of the last call that set one
    ncalls,             \* the calls on heap.c made so far
    op,                 \* the last call: [name, ptr, size, ret]; for heap_free
                        \* size is the size the block was asked to have
    trace               \* the steps the last call took: the collaborator
                        \* calls, and the updates of heap_block_size

vars == <<heap_anchor, heap_block_size, flex_size, os_heap, mem, sink_calls,
          exited, initialised, live, req, text, slide, handed, steps, ncalls,
          op, trace>>

State ==
    [anchor |-> heap_anchor, block_size |-> heap_block_size,
     flex_size |-> flex_size, heap |-> os_heap, mem |-> mem,
     sink |-> sink_calls, exited |-> exited, text |-> text, slide |-> slide,
     handed |-> handed, steps |-> << >>]

Commit(st) ==
    /\ heap_anchor' = st.anchor
    /\ heap_block_size' = st.block_size
    /\ flex_size' = st.flex_size
    /\ os_heap' = st.heap
    /\ mem' = st.mem
    /\ sink_calls' = st.sink
    /\ exited' = st.exited
    /\ text' = st.text
    /\ slide' = st.slide
    /\ handed' = st.handed
    /\ steps' = st.steps

Call(name, ptr, size, ret) == [name |-> name, ptr |-> ptr, size |-> size, ret |-> ret]

\* heap_size: the size_t before the pointer.
SizeAt(m, anchor, ptr) == ReadInt(m, BlockPointer(ptr) - anchor)

heap_size(ptr) == SizeAt(mem, heap_anchor, ptr)

\* The byte at a client address.
Peek(addr) == ReadByte(mem, addr - heap_anchor)

\* The statics of heap.c as the program starts.
Init ==
    /\ heap_anchor = NULL
    /\ heap_block_size = HEAP_GRANULARITY
    /\ flex_size = 0
    /\ os_heap = [base |-> 0, end |-> 0, free |-> {}, used |-> {}]
    /\ mem = << >>
    /\ sink_calls = 0
    /\ exited = FALSE
    /\ initialised = FALSE
    /\ live = {}
    /\ req = << >>
    /\ text = <<0, 0, 0, 0>>
    /\ slide = 0
    /\ handed = Handed(NULL, NULL, NULL)
    /\ steps = << >>
    /\ ncalls = 0
    /\ op = Call("none", NULL, 0, NULL)
    /\ trace = << >>

\* The calls on the heap need it set up, over an arena, in a running program.
Ready == initialised /\ ~exited /\ heap_anchor # NULL

\* The call logged in t made the collaborator call named call.
Made(t, call) == \E i \in DOMAIN t : t[i].call = call

\* An answer flex was never asked for is not a different run: it is taken
\* as granted.
Asked(t, grant) == Made(t, "flex_extend") \/ grant

\* One more call on heap.c.
Counted == ncalls' = ncalls + 1

\* The run has not made n calls on heap.c yet.
Within(n) == ncalls < n

HeapInitialiseCall(got, initerr) ==
    /\ ~initialised /\ ~exited
    /\ Counted
    /\ \E r \in {heap_initialise(State, got, initerr)} :
           /\ Commit(r.st)
           /\ initialised' = ~r.st.exited
           /\ op' = Call("heap_initialise", NULL, 0, r.ret)
           /\ trace' = r.trace
    /\ UNCHANGED <<live, req>>

HeapAllocCall(s, grant, rej1, rej2) ==
    /\ Ready
    /\ Counted
    /\ Cardinality(live) < MaxLive
    /\ \E r \in {heap_alloc(State, s, grant, rej1, rej2)} :
           /\ Asked(r.trace, grant)
           /\ Commit(r.st)
           /\ live' = IF r.ret # NULL THEN live \cup {r.ret} ELSE live
           /\ req' = [p \in live' |-> IF p = r.ret THEN s ELSE req[p]]
           /\ op' = Call("heap_alloc", NULL, s, r.ret)
           /\ trace' = r.trace
    /\ UNCHANGED initialised

HeapFreeCall(p, grant) ==
    /\ Ready
    /\ Counted
    /\ p \in live
    /\ \E r \in {heap_free(State, p, grant)} :
           /\ Asked(r.trace, grant)
           /\ Commit(r.st)
           /\ live' = live \ {p}
           /\ req' = [q \in live' |-> req[q]]
           /\ op' = Call("heap_free", p, req[p], NULL)
           /\ trace' = r.trace
    /\ UNCHANGED initialised

HeapExtendCall(p, s, grant, rej1, rej2) ==
    /\ Ready
    /\ Counted
    /\ p \in live
    /\ \E r \in {heap_extend(State, p, s, grant, rej1, rej2)} :
           /\ Asked(r.trace, grant)
           /\ Commit(r.st)
           /\ live' = IF r.ret # NULL THEN (live \ {p}) \cup {r.ret} ELSE live
           /\ req' = [q \in live' |-> IF q = r.ret THEN s ELSE req[q]]
           /\ op' = Call("heap_extend", p, s, r.ret)
           /\ trace' = r.trace
    /\ UNCHANGED initialised

\* The byte the client writes at index i of a block it fills.
Pattern(i) == (i + 1) % ByteRange

\* The client fills the block at p, as long as it asked it to be.
ClientWrite(p) ==
    /\ Ready
    /\ p \in live
    /\ req[p] > 0
    /\ mem' = WriteBytes(mem, p - heap_anchor, [i \in 1..req[p] |-> Pattern(i - 1)])
    /\ UNCHANGED <<heap_anchor, heap_block_size, flex_size, os_heap, sink_calls,
                   exited, initialised, live, req, text, slide, handed, steps,
                   ncalls, op, trace>>

HeapStrdupCall(grant, rej1, rej2) ==
    /\ Ready
    /\ Counted
    /\ Cardinality(live) < MaxLive
    /\ \E r \in {heap_strdup(State, grant, rej1, rej2)} :
           /\ Asked(r.trace, grant)
           /\ Commit(r.st)
           /\ live' = IF r.ret # NULL THEN live \cup {r.ret} ELSE live
           /\ req' = [p \in live' |-> IF p = r.ret THEN r.size ELSE req[p]]
           /\ op' = Call("heap_strdup", TextAddr, r.size, r.ret)
           /\ trace' = r.trace
    /\ UNCHANGED initialised

\* The client puts a string in its buffer.
ClientText(t) ==
    /\ ~exited
    /\ text' = t
    /\ UNCHANGED <<heap_anchor, heap_block_size, flex_size, os_heap, mem,
                   sink_calls, exited, initialised, live, req, slide, handed,
                   steps, ncalls, op, trace>>

Next ==
    \/ \E got \in BOOLEAN, initerr \in BOOLEAN :
          Within(MaxCalls) /\ HeapInitialiseCall(got, initerr)
    \/ \E s \in Sizes, grant \in BOOLEAN :
          Within(MaxCalls) /\ HeapAllocCall(s, grant, FALSE, FALSE)
    \/ \E p \in live, grant \in BOOLEAN :
          Within(MaxCalls) /\ HeapFreeCall(p, grant)
    \/ \E p \in live, s \in Sizes, grant \in BOOLEAN :
          Within(MaxCalls) /\ HeapExtendCall(p, s, grant, FALSE, FALSE)
    \/ \E p \in live : ClientWrite(p)

Spec == Init /\ [][Next]_vars

\* The same program over an OS_Heap that may turn down the claim that follows
\* an extension whatever room the heap has (a heap whose structure has been
\* damaged).
NextFault ==
    \/ \E got \in BOOLEAN, initerr \in BOOLEAN :
          Within(MaxCalls) /\ HeapInitialiseCall(got, initerr)
    \/ \E s \in Sizes, grant \in BOOLEAN, rej2 \in BOOLEAN :
          Within(MaxCalls) /\ HeapAllocCall(s, grant, FALSE, rej2)
    \/ \E p \in live, grant \in BOOLEAN :
          Within(MaxCalls) /\ HeapFreeCall(p, grant)
    \/ \E p \in live, s \in Sizes, grant \in BOOLEAN, rej2 \in BOOLEAN :
          Within(MaxCalls) /\ HeapExtendCall(p, s, grant, FALSE, rej2)
    \/ \E p \in live : ClientWrite(p)

SpecFault == Init /\ [][NextFault]_vars

\* A client that keeps strings in its buffer and duplicates them, between
\* allocations and releases of its own.
NextStrdup ==
    \/ \E got \in BOOLEAN, initerr \in BOOLEAN :
          Within(MaxCalls) /\ HeapInitialiseCall(got, initerr)
    \/ \E s \in Sizes, grant \in BOOLEAN :
          Within(MaxCalls) /\ HeapAllocCall(s, grant, FALSE, FALSE)
    \/ \E p \in live, grant \in BOOLEAN :
          Within(MaxCalls) /\ HeapFreeCall(p, grant)
    \/ \E grant \in BOOLEAN :
          Within(MaxCalls) /\ HeapStrdupCall(grant, FALSE, FALSE)
    \/ \E t \in Texts : ClientText(t)

SpecStrdup == Init /\ [][NextStrdup]_vars

\* A client that makes a longer run of calls and leaves its blocks unwritten.
NextLong ==
    \/ \E got \in BOOLEAN, initerr \in BOOLEAN :
          Within(MaxLongCalls) /\ HeapInitialiseCall(got, initerr)
    \/ \E s \in Sizes, grant \in BOOLEAN :
          Within(MaxLongCalls) /\ HeapAllocCall(s, grant, FALSE, FALSE)
    \/ \E p \in live, grant \in BOOLEAN :
          Within(MaxLongCalls) /\ HeapFreeCall(p, grant)
    \/ \E p \in live, s \in Sizes, grant \in BOOLEAN :
          Within(MaxLongCalls) /\ HeapExtendCall(p, s, grant, FALSE, FALSE)

SpecLong == Init /\ [][NextLong]_vars

\* The distances a provider that moves the arena moves it by: one OS_Heap
\* granule, and the length of a block of MidSize bytes.
Slides == {HeapAlign, RoundUp(MidSize + SizeofInt + HeapBlockWord)}

\* The arena is where flex_alloc put it: the client's pointers are good. Once
\* the provider has moved it they all dangle, and the run is followed no
\* further.
Settled == heap_anchor \in {NULL, FlexBase}

\* The provider comes to a state in which it will move the arena by d when it
\* next resizes it.
ProviderPlans(d) ==
    /\ Ready /\ Settled
    /\ slide = 0
    /\ slide' = d
    /\ UNCHANGED <<heap_anchor, heap_block_size, flex_size, os_heap, mem,
                   sink_calls, exited, initialised, live, req, text, handed,
                   steps, ncalls, op, trace>>

\* The same program over a provider that may move the arena when it resizes
\* it, and an OS_Heap that may or may not catch a wrong address in the claim
\* that follows.
NextMoving ==
    \/ \E got \in BOOLEAN, initerr \in BOOLEAN :
          Within(MaxCalls) /\ HeapInitialiseCall(got, initerr)
    \/ \E s \in Sizes, grant \in BOOLEAN :
          Within(MaxCalls) /\ Settled /\ HeapAllocCall(s, grant, FALSE, FALSE)
    \/ \E p \in live, grant \in BOOLEAN :
          Within(MaxCalls) /\ Settled /\ HeapFreeCall(p, grant)
    \/ \E p \in live, s \in Sizes, grant \in BOOLEAN, rej2 \in BOOLEAN :
          Within(MaxCalls) /\ Settled /\ HeapExtendCall(p, s, grant, FALSE, rej2)
    \/ \E p \in live : Settled /\ ClientWrite(p)
    \/ \E d \in Slides : ProviderPlans(d)

SpecMoving == Init /\ [][NextMoving]_vars

\* ----------------------------------------------------------------- claims

\* The step is a call of the function named name.
Calls(name) == ncalls' # ncalls /\ op'.name = name

\* The steps of a call whose first claim failed and whose extension flex refused.
Refused(reserve) == <<Ev(reserve, FALSE), Ev("flex_extend", FALSE)>>

\* The call logged in t grew the arena.
Grew(t) == Len(t) >= 2 /\ t[2] = Ev("flex_extend", TRUE)

\* The number of steps named call in t.
Times(t, call) == Cardinality({i \in DOMAIN t : t[i].call = call})

\* C1: whenever heap_alloc(s) returns a pointer, heap_size of it, read next,
\* is s, also when the first claim failed and the arena had to grow.
C1_SizeAfterAlloc ==
    (op.name = "heap_alloc" /\ op.ret # NULL /\ ~exited)
        => heap_size(op.ret) = op.size

\* heap_alloc(100) has returned a block after growing the arena.
C1_Witness ==
    /\ op.name = "heap_alloc" /\ op.ret # NULL /\ op.size = MidSize
    /\ Grew(trace)
    /\ heap_size(op.ret) = MidSize

\* C2: the header of every live allocation holds the size last asked for it
\* by a heap_alloc or heap_extend that returned it.
C2_HeaderIsRequested == \A p \in live : heap_size(p) = req[p]

\* Two live allocations, one of them returned by a heap_extend that changed
\* its size.
C2_Witness ==
    /\ Cardinality(live) = 2
    /\ op.name = "heap_extend" /\ op.ret \in live
    /\ op.size = BigSize /\ heap_size(op.ret) = BigSize
    /\ \E q \in live : q # op.ret /\ heap_size(q) = MidSize

\* C3: the byte ranges [p, p + heap_size(p)) of the live allocations do not
\* overlap, and each lies within [heap_anchor, heap_anchor + heap_block_size).
C3_DisjointInArena ==
    /\ \A p \in live :
          /\ heap_anchor <= p
          /\ p + heap_size(p) <= heap_anchor + heap_block_size
    /\ \A p \in live : \A q \in live \ {p} :
          p + heap_size(p) <= q \/ q + heap_size(q) <= p

\* Two live allocations with bytes in them, in an arena a heap_free has shrunk
\* below its first size.
C3_Witness ==
    /\ Cardinality(live) = 2
    /\ \A p \in live : heap_size(p) > 0
    /\ heap_block_size < HEAP_GRANULARITY
    /\ flex_size < HEAP_GRANULARITY

\* C4: heap_alloc returns null exactly when its claim fails and flex refuses
\* to extend the arena; it then returns without a fatal report, and
\* heap_block_size, the OS_Heap heap and the live allocations are as before.
C4_NullIffRefused ==
    [][Calls("heap_alloc") =>
        /\ (trace' = Refused("xosheap_alloc")) =>
              /\ ~exited' /\ sink_calls' = sink_calls
              /\ op'.ret = NULL
              /\ heap_block_size' = heap_block_size
              /\ os_heap' = os_heap
              /\ live' = live /\ req' = req /\ mem' = mem
        /\ (~exited' /\ op'.ret = NULL) => trace' = Refused("xosheap_alloc")
      ]_vars

\* heap_alloc has returned null beside a live allocation.
C4_Witness ==
    /\ op.name = "heap_alloc" /\ op.ret = NULL /\ ~exited
    /\ trace = Refused("xosheap_alloc")
    /\ live # {}

\* C5: a heap_alloc or heap_extend asks flex to extend at most once and makes
\* its claim at most twice; the second claim comes only after a flex_extend that
\* succeeded, the resize of the OS_Heap heap and the update of heap_block_size,
\* in that order; and flex is not asked when the first claim succeeds.
C5_OneExtendOneRetry ==
    op.name \in {"heap_alloc", "heap_extend"} =>
        LET reserve == IF op.name = "heap_alloc" THEN "xosheap_alloc"
                       ELSE "xosheap_realloc"
        IN  /\ Times(trace, "flex_extend") <= 1
            /\ Times(trace, reserve) \in 1..2
            /\ trace[1].call = reserve
            /\ trace[1].ok => Len(trace) = 1
            /\ Times(trace, reserve) = 2 =>
                  /\ Len(trace) >= 5
                  /\ SubSeq(trace, 1, 4) =
                        <<Ev(reserve, FALSE), Ev("flex_extend", TRUE),
                          Ev("osheap_resize", TRUE), Ev("heap_block_size", TRUE)>>
                  /\ trace[5].call = reserve

\* heap_extend has claimed twice, around one extension, and returned.
C5_Witness ==
    /\ op.name = "heap_extend" /\ op.ret # NULL
    /\ Times(trace, "xosheap_realloc") = 2
    /\ Times(trace, "flex_extend") = 1

\* The call logged in t had its second claim, after the extension, turned down.
RetryRejected(t) == Len(t) >= 5 /\ Grew(t) /\ ~t[5].ok

\* C6: when OS_Heap turns down the claim that follows a successful extension,
\* in heap_alloc or heap_extend, the fatal report is made exactly once, the
\* call does not return, no header is written, and nothing changes afterwards.
C6_FatalOnRetry ==
    [][/\ (ncalls' # ncalls /\ RetryRejected(trace')) =>
              /\ exited'
              /\ sink_calls = 0 /\ sink_calls' = 1
              /\ Times(trace', "error_report_program") = 1
              /\ mem' = mem /\ live' = live /\ req' = req
       /\ exited => UNCHANGED vars
      ]_vars

\* heap_extend has ended in the fatal report, beside a live allocation.
C6_Witness ==
    /\ exited /\ sink_calls = 1
    /\ op.name = "heap_extend"
    /\ RetryRejected(trace)
    /\ live # {}

\* C7: every call of error_report_program ends the program.
C7_ReportNeverReturns == Made(trace, "error_report_program") => exited

\* C8: heap_initialise returns failure when flex cannot give the first block,
\* and success only when it has and OS_Heap has a heap over all of it.
C8_InitialiseReportsOutcome ==
    op.name = "heap_initialise" =>
        /\ ~trace[1].ok => (~exited /\ op.ret = FALSE_)
        /\ (~exited /\ op.ret = TRUE_) =>
              /\ trace[1].ok
              /\ heap_anchor # NULL
              /\ os_heap.end = flex_size

\* C9: a heap_extend(p, s2) that returns q leaves the first
\* min(heap_size(p), s2) bytes of the block as they were, at q, and
\* heap_size(q) = s2.
C9_ExtendKeepsContent ==
    [][(Calls("heap_extend") /\ op'.ret # NULL /\ ~exited') =>
        /\ \A i \in 0..(Min(SizeAt(mem, heap_anchor, op'.ptr), op'.size) - 1) :
              ReadByte(mem', op'.ret + i - heap_anchor')
                  = ReadByte(mem, op'.ptr + i - heap_anchor)
        /\ SizeAt(mem', heap_anchor', op'.ret) = op'.size
      ]_vars

\* heap_extend has moved a block of 100 bytes the client had filled, in an
\* arena it had to grow: the first 100 bytes of the new block hold what the
\* client wrote, and the rest nothing yet.
C9_Witness ==
    /\ op.name = "heap_extend" /\ op.ret # NULL /\ op.ret # op.ptr
    /\ Grew(trace)
    /\ op.size = BigSize
    /\ Peek(op.ret) = Pattern(0)
    /\ Peek(op.ret + MidSize - 1) = Pattern(MidSize - 1)
    /\ Peek(op.ret + MidSize) = Junk

\* The program has called heap_initialise, heap_alloc(100) and heap_free of
\* the pointer it got, and nothing else.
AllocatedAndFreed ==
    /\ ncalls = 3 /\ live = {}
    /\ op.name = "heap_free" /\ op.size = MidSize

\* C10 as the spec has it: after heap_initialise, heap_alloc(100) and heap_free
\* of the pointer, heap_alloc(100) returns a pointer.
C10_AllocAgainSucceeds ==
    [][(AllocatedAndFreed /\ Calls("heap_alloc") /\ op'.size = MidSize)
          => op'.ret # NULL]_vars

\* C10 as the code has it: heap_free has shrunk the arena to the OS_Heap
\* descriptor, so the second heap_alloc(100) has to ask flex to extend it; it
\* returns a pointer to 100 bytes when flex does, and null when flex refuses.
C10_AllocAgainNeedsFlex ==
    [][(AllocatedAndFreed /\ Calls("heap_alloc") /\ op'.size = MidSize) =>
        /\ heap_block_size = HeapDescSize
        /\ Made(trace', "flex_extend")
        /\ Grew(trace') =>
              /\ ~exited' /\ op'.ret # NULL
              /\ SizeAt(mem', heap_anchor', op'.ret) = MidSize
        /\ ~Grew(trace') => op'.ret = NULL
      ]_vars

\* The second heap_alloc(100) has returned a pointer.
C10_Witness ==
    /\ ncalls = 4 /\ Cardinality(live) = 1
    /\ op.name = "heap_alloc" /\ op.size = MidSize /\ op.ret \in live
    /\ Grew(trace)
    /\ heap_block_size = HeapDescSize + MidSize + SizeofInt + HEAP_BLOCK_OHEAD

\* C11: once heap_free has released the last live allocation, whatever the
\* allocations, resizes and releases before it and whatever their order,
\* heap_block_size is within HEAP_GRANULARITY of the size of an arena with
\* nothing in it, which is the OS_Heap descriptor alone.
C11_EmptyArenaIsSmall ==
    (op.name = "heap_free" /\ live = {}) =>
        /\ heap_block_size >= HeapDescSize
        /\ heap_block_size - HeapDescSize <= HEAP_GRANULARITY

\* The last of two allocations has been released, the first of them of 500
\* bytes or resized to that, in a run of five calls.
C11_Witness ==
    /\ op.name = "heap_free" /\ live = {}
    /\ ncalls >= 5
    /\ op.size = BigSize
    /\ heap_block_size = HeapDescSize

\* C12: a heap_alloc(s) whose first claim fails and that returns a pointer
\* after growing the arena leaves heap_block_size at least s, the header and
\* OS_Heap's overhead per block above what it was before the call.
C12_GrowthCoversRequest ==
    [][(Calls("heap_alloc") /\ Grew(trace') /\ op'.ret # NULL) =>
          heap_block_size' - heap_block_size
              >= op'.size + SizeofInt + HEAP_BLOCK_OHEAD]_vars

\* heap_alloc(500) has returned a pointer after growing the arena it was
\* first given.
C12_Witness ==
    /\ op.name = "heap_alloc" /\ op.ret # NULL /\ op.size = BigSize
    /\ Grew(trace)
    /\ trace[5] = Ev("xosheap_alloc", TRUE)
    /\ heap_block_size = HEAP_GRANULARITY + BigSize + SizeofInt + HEAP_BLOCK_OHEAD

\* C13: a heap_strdup that returns a pointer returns one outside the storage
\* of the string, with heap_size of it strlen + 1 and the string's bytes up to
\* and including its terminator behind it; when flex refuses the memory it
\* returns null; either way the string is as it was.
C13_StrdupCopies ==
    [][Calls("heap_strdup") =>
        /\ text' = text
        /\ (op'.ret # NULL /\ ~exited') =>
              /\ \/ op'.ret + strlen(text) + 1 <= TextAddr
                 \/ TextAddr + Len(text) <= op'.ret
              /\ SizeAt(mem', heap_anchor', op'.ret) = strlen(text) + 1
              /\ \A i \in 0..strlen(text) :
                    ReadByte(mem', op'.ret + i - heap_anchor') = text[i + 1]
        /\ (trace' = Refused("xosheap_alloc")) =>
              /\ op'.ret = NULL /\ ~exited'
              /\ mem' = mem /\ live' = live
      ]_vars

\* heap_strdup has grown the arena and returned a copy of "H", taken from a
\* buffer with more bytes after the terminator: they were not copied.
C13_Witness ==
    /\ op.name = "heap_strdup" /\ op.ret # NULL /\ op.ptr = TextAddr
    /\ Grew(trace)
    /\ text = <<72, 0, 105, 0>>
    /\ heap_size(op.ret) = 2
    /\ Peek(op.ret) = 72 /\ Peek(op.ret + 1) = 0
    /\ Peek(op.ret + 2) = Junk

\* The step is a heap_alloc or heap_extend that had flex extend the arena.
GrowthStep ==
    /\ Calls("heap_alloc") \/ Calls("heap_extend")
    /\ Grew(trace')

\* C14 as the spec has it: the growth step of heap_alloc and heap_extend
\* enlarges the arena by the capacity it had plus the request with its header
\* plus OS_Heap's overhead, which is no less than HEAP_GRANULARITY.
C14_ExtensionAddsCapacity ==
    [][GrowthStep =>
        LET extension == heap_block_size + (op'.size + SizeofInt) + HEAP_BLOCK_OHEAD
        IN  /\ heap_block_size' - heap_block_size = extension
            /\ extension >= HEAP_GRANULARITY
      ]_vars

\* C14 as the code has it: capacity + total + OH is the size flex is asked to
\* give the arena, not the bytes to add to it, so the growth step enlarges
\* heap_block_size and the OS_Heap heap by total + OH, however small.
C14_ExtensionIsNewSize ==
    [][GrowthStep =>
        LET total == op'.size + SizeofInt
        IN  /\ flex_size' = heap_block_size + total + HEAP_BLOCK_OHEAD
            /\ heap_block_size' - heap_block_size = total + HEAP_BLOCK_OHEAD
            /\ os_heap'.end - os_heap.end = total + HEAP_BLOCK_OHEAD
      ]_vars

\* heap_alloc(0) has grown an arena that held the OS_Heap descriptor alone: by
\* 20 bytes.
C14_Witness ==
    /\ op.name = "heap_alloc" /\ op.size = 0 /\ op.ret # NULL
    /\ Grew(trace)
    /\ heap_block_size = HeapDescSize + SizeofInt + HEAP_BLOCK_OHEAD
    /\ flex_size = heap_block_size
    /\ os_heap.end = heap_block_size

\* The bytes the OS_Heap heap h holds for the allocation at ptr, in the arena at
\* anchor: its block less the size word.
Region(h, anchor, ptr) == BlockAt(h, BlockPointer(ptr) - anchor).sz - HeapBlockWord

\* The bytes OS_Heap holds for a block of region bytes after a change of
\* change bytes (it rounds the block, with its size word, up to HeapAlign).
Resized(region, change) == RoundUp(region + HeapBlockWord + change) - HeapBlockWord

\* C15: heap_extend(p, S) has OS_Heap make the region of the block S + H
\* bytes: the region changes by the difference between S + H and the S + H
\* of the last request, as OS_Heap rounds it, and holds at least S + H; a
\* resize to the size the block has leaves the region as it is.
C15_RegionIsTotal ==
    [][(Calls("heap_extend") /\ op'.ret # NULL /\ ~exited') =>
        LET old == SizeAt(mem, heap_anchor, op'.ptr)
            before == Region(os_heap, heap_anchor, op'.ptr)
            after == Region(os_heap', heap_anchor', op'.ret)
        IN  /\ after = Resized(before, (op'.size + SizeofInt) - (old + SizeofInt))
            /\ after >= op'.size + SizeofInt
            /\ op'.size = old => after = before
      ]_vars

\* C16: a heap_alloc or heap_extend that had flex extend the arena finds its
\* second claim met, and no heap_alloc, heap_extend or heap_free ends in the
\* fatal report, OS_Heap turning down only the claims it has no room for.
C16_RetrySucceeds ==
    op.name \in {"heap_alloc", "heap_extend", "heap_free"} =>
        /\ Grew(trace) => trace[5].ok
        /\ ~exited
        /\ sink_calls = 0

\* C17: between the calls on a heap that is set up, heap_block_size is the
\* size the flex block has and the extent of the OS_Heap heap, and a call
\* changes heap_block_size only when a flex_extend it made succeeded.
C17_TrackedIsActual ==
    [][/\ Ready' => /\ heap_block_size' = flex_size'
                    /\ heap_block_size' = os_heap'.end
       /\ heap_block_size' # heap_block_size =>
              \E i \in DOMAIN trace' : trace'[i] = Ev("flex_extend", TRUE)
      ]_vars

\* C18: in heap_free, when trimming the OS_Heap heap gives back r > 0 bytes,
\* flex is asked to shrink the arena by r, so that the arena is r bytes
\* smaller when flex carries it out, and heap_block_size goes down by r; when
\* trimming gives back nothing, flex is not called and neither size changes.
C18_FreeShrinksByTrim ==
    [][Calls("heap_free") =>
        LET r == os_heap.end - os_heap'.end
        IN  /\ r > 0 =>
                  /\ heap_block_size' = heap_block_size - r
                  /\ Times(trace', "flex_extend") = 1
                  /\ trace'[Len(trace')] = Ev("flex_extend", TRUE) =>
                        flex_size' = flex_size - r
            /\ r = 0 =>
                  /\ ~Made(trace', "flex_extend")
                  /\ heap_block_size' = heap_block_size
                  /\ flex_size' = flex_size
      ]_vars

C20_NoStaleAddress ==
    op.name \in {"heap_free", "heap_extend"} =>
        /\ handed.ptr = BlockPointer(op.ptr)
        /\ handed.derived = handed.used

\* C21: the heap inside the arena never reaches past the flex block: not
\* between the calls, and not after any statement inside one that sets the
\* size of either, a shrink that flex refuses included.
C21_InnerWithinProvider ==
    /\ os_heap.end <= flex_size
    /\ \A i \in DOMAIN steps : steps[i].end <= steps[i].flex

\* C22: a heap_extend(p, s) in which OS_Heap turns the resize down and flex
\* refuses to extend the arena returns NULL with the program running, and
\* leaves everything as it was: p is live with its size and its bytes, and so
\* is every other block; heap_block_size, the arena and the heap in it are
\* unchanged.
C22_RefusedExtendChangesNothing ==
    [][(Calls("heap_extend") /\ trace' = Refused("xosheap_realloc")) =>
          /\ op'.ret = NULL /\ ~exited'
          /\ op'.ptr \in live'
          /\ live' = live /\ req' = req
          /\ \A q \in live : SizeAt(mem', heap_anchor', q) = heap_size(q)
          /\ mem' = mem
          /\ os_heap' = os_heap
          /\ heap_block_size' = heap_block_size
          /\ flex_size' = flex_size
          /\ heap_anchor' = heap_anchor]_vars

\* A refused heap_extend of a block the client has filled, beside another
\* live block: both have their sizes, and the block its bytes.
C22_Witness ==
    /\ op.name = "heap_extend" /\ op.ret = NULL /\ ~exited
    /\ trace = Refused("xosheap_realloc")
    /\ op.ptr \in live /\ Cardinality(live) = 2
    /\ \A q \in live : heap_size(q) = req[q]
    /\ req[op.ptr] > 0
    /\ \A i \in 0..(req[op.ptr] - 1) : Peek(op.ptr + i) = Pattern(i)

\* The bytes of the block a client pointer is the address of, its size word
\* first: none when there is no block at that address.
BlockData(m, anchor, ptr) ==
    LET d == BlockPointer(ptr) - anchor
    IN  IF d \in DOMAIN m THEN m[d] ELSE << >>

\* C23: a heap_alloc, heap_free or heap_extend that returns leaves every other
\* live block where it was, with the size its header holds and with its
\* bytes, whether or not the call has flex resize the arena.
C23_OthersUntouched ==
    [][((Calls("heap_alloc") \/ Calls("heap_free") \/ Calls("heap_extend"))
            /\ ~exited') =>
          \A q \in live \ {op'.ptr} :
              /\ q \in live'
              /\ IsBlock(os_heap', BlockPointer(q) - heap_anchor')
              /\ SizeAt(mem', heap_anchor', q) = heap_size(q)
              /\ BlockData(mem', heap_anchor', q) = BlockData(mem, heap_anchor, q)
      ]_vars

====
